---- MODULE Spec2Model ----
(***************************************************************************)
(* NASA launch control: the Express launch registry over a MongoDB store.  *)
(* The model covers the HTTP handlers of the launches and planets routers, *)
(* the launches model functions they await, the startup of the server      *)
(* process with the ingestion of the Kepler data, and its graceful         *)
(* shutdown.  One action is one run of a handler between two awaits: the   *)
(* store operation it awaited together with the synchronous code that      *)
(* follows it.  Spec is the process once it listens; StartupSpec is the    *)
(* process from its start.                                                 *)
(***************************************************************************)
EXTENDS Integers, Sequences, FiniteSets, TLC

\* ------------------------------------------------------------------------
\* Bounds of the model
\* ------------------------------------------------------------------------

\* Upper bound on the POST /launches requests that reach addNewLaunch
\* (in flight or already saved).
MaxLaunches == 2

\* The HTTP connections that may carry a request concurrently.
Clients == {"c1", "c2"}

\* ------------------------------------------------------------------------
\* Values
\* ------------------------------------------------------------------------

\* A property that is absent from the JSON body (JavaScript undefined).
Absent == "<undefined>"

\* The time value of an Invalid Date (NaN).
NaN == -1

\* launches.model.js: DEFAULT_CUSTOMERS
DEFAULT_CUSTOMERS == <<"Zero to Mastery", "NASA">>

\* The baseline getLatestFlightNumber returns for an empty collection.
DEFAULT_FLIGHT_NUMBER == 100

\* Request bodies of POST /launches.
Body(m, r, d, t) == [mission |-> m, rocket |-> r, launchDate |-> d, target |-> t]

\* A body that also names the properties the server assigns.
InjectedBody ==
    [mission |-> "Takeover", rocket |-> "Explorer IS1", launchDate |-> "2030-12-27",
     target |-> "Kepler-62 f", flightNumber |-> 101, customers |-> <<"Mallory">>,
     upcoming |-> FALSE, success |-> FALSE]

ValidBodies ==
    { Body("Kepler Exploration X", "Explorer IS1", "2030-12-27", "Kepler-442 b"),
      Body("Mission Name", "Rocket Type", "2024-01-01", "Kepler-62 f"),
      InjectedBody }

InvalidBodies ==
    { Body("M", "R", "2024-01-01", Absent),
      Body("", "Explorer IS1", "2030-12-27", "Kepler-442 b"),
      Body("Mission Name", Absent, "not-a-date", "Kepler-62 f"),
      Body("Mission Name", "Rocket Type", Absent, "Kepler-62 f"),
      Body("Mission Name", "Rocket Type", "not-a-date", "Kepler-62 f") }

Bodies == ValidBodies \cup InvalidBodies

\* The :id path parameters of DELETE /launches/:id.
LaunchIds == {"101", "102", "99999"}

\* The planets collection after the startup ingestion.
HabitablePlanets == <<"Kepler-442 b", "Kepler-62 f">>

\* ------------------------------------------------------------------------
\* The Kepler data set (data/kepler_data.csv)
\* ------------------------------------------------------------------------

\* Upper bound on the rows of the CSV file.
MaxRows == 2

\* Upper bound on the starts of the server process over the same database.
MaxStarts == 2

\* The numbers of the CSV fields are kept as integers in units of 1/Scale.
Scale == 100000

\* The thresholds of isHabitablePlanet: 0.36, 1.11 and 1.6.
MinInsolation == 36000
MaxInsolation == 111000
MaxRadius == 160000

\* A row as csv-parse delivers it with columns: true: every field is a
\* string, the empty string for an empty field.
Row(d, i, p, k, o) ==
    [koi_disposition |-> d, koi_insol |-> i, koi_prad |-> p,
     kepler_name |-> k, kepoi_name |-> o]

Rows ==
    { Row("CONFIRMED", "0.7", "1.59999", "Kepler-442 b", "K04742.01"),
      Row("CONFIRMED", "0.7", "1.59999", "Kepler-62 f", "K00701.04"),
      Row("CONFIRMED", "0.36", "1.59999", "Kepler-1649 b", "K03138.01"),
      Row("CONFIRMED", "1.11", "1.59999", "Kepler-1652 b", "K02626.01"),
      Row("CONFIRMED", "0.7", "1.6", "Kepler-452 b", "K07016.01"),
      Row("CANDIDATE", "0.7", "1.59999", "", "K08000.01"),
      Row("CONFIRMED", "0.7", "1.59999", "", "K00701.04"),
      Row("CONFIRMED", "0.7", "1.59999", "", ""),
      Row("CONFIRMED", "0.7", "", "Kepler-296 e", "K01422.05") }

\* The files of at most MaxRows rows.
Datasets == UNION { [1..n -> Rows] : n \in 0..MaxRows }

\* The file whose ingestion leaves HabitablePlanets in the collection.
KeplerData ==
    << Row("CONFIRMED", "0.7", "1.59999", "Kepler-442 b", "K04742.01"),
       Row("CONFIRMED", "0.7", "1.59999", "Kepler-62 f", "K00701.04") >>

\* The planets collection as an earlier deployment may have left it.
PriorPlanets == { <<>>, <<"Kepler-1649 b", "Kepler-442 b">> }

\* The invocations of startServer() in server.js.
Runs == {1, 2}

\* ------------------------------------------------------------------------
\* State
\* ------------------------------------------------------------------------
VARIABLES
    launches,        \* the launches collection, documents in insertion order
    planets,         \* the planets collection (keplerName of each document)
    storeUp,         \* TRUE while MongoDB answers, FALSE while its operations reject
    pc,              \* per connection: where its handler is suspended
    request,         \* per connection: the request being handled
    launch,          \* per connection: the handler's launch object (req.body)
    response,        \* per connection: the response sent
    isShuttingDown,  \* server.js: isShuttingDown
    shutdownSignal,  \* the signal gracefulShutdown was started with
    server,          \* the http server: "created", "listening", "closing", "closed"
    exitCode,        \* -1 while the process runs, else the code of process.exit
    createOverlap,   \* history: two POST /launches were in flight together
    mongo,           \* the mongoose connection: "open", or "closing" once
                     \* mongoose.connection.close() was called
    startCalls,      \* the number of startServer() calls server.js makes
    run,             \* per startServer() call: its position, and the rows read
                     \* and the names collected by its loadPlanetsData()
    dataset,         \* the rows of data/kepler_data.csv
    starts,          \* the number of process starts so far
    loaded,          \* history: the planets collection when the first
                     \* ingestion without overlap resolved, NotLoaded before
    loadOverlap,     \* history: two loadPlanetsData() calls were in progress together
    savedLaunches,   \* useLaunches: the launches state of the page
    isPendingLaunch, \* useLaunches: the isPendingLaunch state
    fetches,         \* per connection: the fetch() the page awaits on it
    timers,          \* the setTimeout callbacks of submitLaunch not yet run
    sound            \* the sound the page played last

\* The variables that only startup changes.
startupVars == <<startCalls, run, dataset, starts, loaded, loadOverlap>>

\* The variables of the page in the browser.
clientVars == <<savedLaunches, isPendingLaunch, fetches, timers, sound>>

vars == <<launches, planets, storeUp, pc, request, launch, response,
          isShuttingDown, shutdownSignal, server, exitCode, createOverlap,
          mongo, startCalls, run, dataset, starts, loaded, loadOverlap,
          savedLaunches, isPendingLaunch, fetches, timers, sound>>

NoRequest == [kind |-> "none"]
NoLaunch == [flightNumber |-> 0]
NoResponse == [status |-> 0]
NoFetch == [kind |-> "none"]

\* No page is open: nothing is fetched and nothing is shown.
NoPage ==
    /\ savedLaunches = <<>>
    /\ isPendingLaunch = FALSE
    /\ fetches = [c \in Clients |-> NoFetch]
    /\ timers = 0
    /\ sound = "none"

\* ------------------------------------------------------------------------
\* JavaScript conversions
\* ------------------------------------------------------------------------

\* !value for the strings of a JSON body: undefined and "" are falsy.
Falsy(v) == v = Absent \/ v = ""

\* new Date(string): days since the epoch, NaN for an Invalid Date.
NewDate(s) ==
    CASE s = "2030-12-27" -> 22275
      [] s = "2024-01-01" -> 19723
      [] OTHER -> NaN

\* Number(req.params.id)
ToNumber(s) ==
    CASE s = "101" -> 101
      [] s = "102" -> 102
      [] s = "99999" -> 99999
      [] OTHER -> NaN

\* ------------------------------------------------------------------------
\* The launches collection (Mongoose model Launch)
\* ------------------------------------------------------------------------

\* Indexes of the documents that match { flightNumber: n }.
Matching(docs, n) == { i \in DOMAIN docs : docs[i].flightNumber = n }

Min(S) == CHOOSE x \in S : \A y \in S : x <= y
Max(S) == CHOOSE x \in S : \A y \in S : x >= y

\* Variant of getLatestFlightNumber without the baseline of 100.
getLatestFlightNumber_NoBaseline(docs) ==
    IF docs = <<>> THEN 0
    ELSE Max({ docs[i].flightNumber : i \in DOMAIN docs })

\* Launch.findOne().sort('-flightNumber'), then the default of 100.
getLatestFlightNumber(docs) ==
    IF docs = <<>> THEN DEFAULT_FLIGHT_NUMBER
    ELSE Max({ docs[i].flightNumber : i \in DOMAIN docs })

\* Variant of existsLaunchWithId that finds a document for every id.
existsLaunchWithId_Always(docs, launchId) == TRUE

\* Launch.findOne({ flightNumber: launchId }): TRUE iff a document is found.
existsLaunchWithId(docs, launchId) == Matching(docs, launchId) # {}

\* Variant of saveLaunch that inserts without matching on flightNumber.
saveLaunch_InsertOnly(docs, l) == Append(docs, l)

\* Variant of saveLaunch that leaves a matching document as it is
\* ($setOnInsert instead of $set).
saveLaunch_KeepExisting(docs, l) ==
    IF Matching(docs, l.flightNumber) # {} THEN docs ELSE Append(docs, l)

\* Launch.findOneAndUpdate({ flightNumber }, launch, { upsert: true }):
\* the first matching document takes every field of launch; without a match
\* a new document is appended.
saveLaunch(docs, l) ==
    IF Matching(docs, l.flightNumber) # {}
    THEN [docs EXCEPT ![Min(Matching(docs, l.flightNumber))] = l]
    ELSE Append(docs, l)

\* Variant of addNewLaunch that does not set the default customers.
addNewLaunch_NoCustomers(l, newFlightNumber) ==
    [flightNumber |-> newFlightNumber,
     launchDate   |-> l.launchDate,
     mission      |-> l.mission,
     rocket       |-> l.rocket,
     target       |-> l.target,
     customers    |-> <<>>,
     upcoming     |-> TRUE,
     success      |-> TRUE]

\* The properties addNewLaunch assigns.
Assigned(newFlightNumber) ==
    [flightNumber |-> newFlightNumber, customers |-> DEFAULT_CUSTOMERS,
     upcoming |-> TRUE, success |-> TRUE]

\* Variant of addNewLaunch in which the properties of the body win
\* (Object.assign({ flightNumber, ... }, launch)).
addNewLaunch_BodyWins(l, newFlightNumber) ==
    [f \in DOMAIN l \cup DOMAIN Assigned(newFlightNumber) |->
        IF f \in DOMAIN l THEN l[f] ELSE Assigned(newFlightNumber)[f]]

\* Object.assign(launch, { flightNumber, customers, upcoming, success }): the
\* properties of the body, overwritten by the assigned ones.
addNewLaunch(l, newFlightNumber) ==
    [f \in DOMAIN l \cup DOMAIN Assigned(newFlightNumber) |->
        IF f \in DOMAIN Assigned(newFlightNumber)
        THEN Assigned(newFlightNumber)[f] ELSE l[f]]

\* Variant of abortLaunchById that sets upcoming only.
abortLaunchById_UpcomingOnly(docs, launchId) ==
    IF Matching(docs, launchId) = {}
    THEN [docs |-> docs, modifiedCount |-> 0]
    ELSE LET i == Min(Matching(docs, launchId))
             d == [docs[i] EXCEPT !.upcoming = FALSE]
         IN [docs |-> [docs EXCEPT ![i] = d],
             modifiedCount |-> IF d = docs[i] THEN 0 ELSE 1]

\* Variant of abortLaunchById that reports the matched documents (matchedCount)
\* in place of the modified ones.
abortLaunchById_MatchedCount(docs, launchId) ==
    IF Matching(docs, launchId) = {}
    THEN [docs |-> docs, modifiedCount |-> 0]
    ELSE LET i == Min(Matching(docs, launchId))
         IN [docs |-> [docs EXCEPT ![i] = [docs[i] EXCEPT !.upcoming = FALSE,
                                                          !.success = FALSE]],
             modifiedCount |-> 1]

\* Variant of abortLaunchById that updates every document (updateMany with
\* an empty filter).
abortLaunchById_UpdateMany(docs, launchId) ==
    IF Matching(docs, launchId) = {}
    THEN [docs |-> docs, modifiedCount |-> 0]
    ELSE [docs |-> [i \in DOMAIN docs |->
                      [docs[i] EXCEPT !.upcoming = FALSE, !.success = FALSE]],
          modifiedCount |-> 1]

\* Launch.updateOne({ flightNumber: launchId }, { upcoming: false, success: false }):
\* $set on the first matching document; modifiedCount counts the documents
\* whose content changed.
abortLaunchById(docs, launchId) ==
    IF Matching(docs, launchId) = {}
    THEN [docs |-> docs, modifiedCount |-> 0]
    ELSE LET i == Min(Matching(docs, launchId))
             d == [docs[i] EXCEPT !.upcoming = FALSE, !.success = FALSE]
         IN [docs |-> [docs EXCEPT ![i] = d],
             modifiedCount |-> IF d = docs[i] THEN 0 ELSE 1]

\* Variant of SortByFlightNumber that sorts in descending order
\* (sort({ flightNumber: -1 })).
SortByFlightNumber_Descending(docs) ==
    [i \in DOMAIN docs |->
        docs[CHOOSE k \in DOMAIN docs :
               Cardinality({ j \in DOMAIN docs :
                               \/ docs[j].flightNumber > docs[k].flightNumber
                               \/ docs[j].flightNumber = docs[k].flightNumber /\ j < k })
                 = i - 1]]

\* Launch.find({}).sort({ flightNumber: 1 }): insertion sort by flightNumber.
RECURSIVE SortByFlightNumber(_)
SortByFlightNumber(docs) ==
    IF docs = <<>> THEN <<>>
    ELSE LET m == Min({ docs[i].flightNumber : i \in DOMAIN docs })
             k == Min(Matching(docs, m))
             rest == [j \in 1..(Len(docs) - 1) |-> IF j < k THEN docs[j] ELSE docs[j + 1]]
         IN <<docs[k]>> \o SortByFlightNumber(rest)

getAllLaunches(docs) == SortByFlightNumber(docs)

\* Planet.find({})
getAllPlanets(docs) == [i \in DOMAIN docs |-> [keplerName |-> docs[i]]]

\* ------------------------------------------------------------------------
\* planets.model.js
\* ------------------------------------------------------------------------

\* The number a CSV field becomes when `>` or `<` compares it with a number
\* (ToNumber of the string), in units of 1/Scale; the empty field becomes 0.
CsvNumber(field) ==
    CASE field = "" -> 0
      [] field = "0.36" -> 36000
      [] field = "0.7" -> 70000
      [] field = "1.11" -> 111000
      [] field = "1.59999" -> 159999
      [] field = "1.6" -> 160000

\* Variant of isHabitablePlanet with inclusive bounds.
isHabitablePlanet_Inclusive(planet) ==
    /\ planet.koi_disposition = "CONFIRMED"
    /\ CsvNumber(planet.koi_insol) >= MinInsolation
    /\ CsvNumber(planet.koi_insol) <= MaxInsolation
    /\ CsvNumber(planet.koi_prad) <= MaxRadius

isHabitablePlanet(planet) ==
    /\ planet.koi_disposition = "CONFIRMED"
    /\ CsvNumber(planet.koi_insol) > MinInsolation
    /\ CsvNumber(planet.koi_insol) < MaxInsolation
    /\ CsvNumber(planet.koi_prad) < MaxRadius

\* Variant of PlanetName without the fallback to kepoi_name.
PlanetName_KeplerOnly(data) == data.kepler_name

\* data.kepler_name || data.kepoi_name
PlanetName(data) ==
    IF data.kepler_name # "" THEN data.kepler_name ELSE data.kepoi_name

\* The 'data' handler of loadPlanetsData.
OnData(habitablePlanets, data) ==
    IF isHabitablePlanet(data) /\ PlanetName(data) # ""
    THEN Append(habitablePlanets, PlanetName(data))
    ELSE habitablePlanets

\* A startServer() call that is not made, and the value of `loaded` before
\* the first ingestion has resolved.
NotStarted == [pc |-> "off", pos |-> 0, habitablePlanets |-> <<>>, before |-> <<>>]
NotLoaded == <<"<not loaded>">>

\* ------------------------------------------------------------------------
\* Initial state: the server listens, ingestion has filled the planets
\* collection, the launches collection is empty.
\* ------------------------------------------------------------------------
Listening ==
    /\ launches = <<>>
    /\ planets = HabitablePlanets
    /\ storeUp = TRUE
    /\ pc = [c \in Clients |-> "idle"]
    /\ request = [c \in Clients |-> NoRequest]
    /\ launch = [c \in Clients |-> NoLaunch]
    /\ response = [c \in Clients |-> NoResponse]
    /\ isShuttingDown = FALSE
    /\ shutdownSignal = "none"
    /\ server = "listening"
    /\ exitCode = -1
    /\ createOverlap = FALSE
    /\ mongo = "open"
    /\ startCalls = 1
    /\ run = [r \in Runs |-> IF r = 1 THEN [NotStarted EXCEPT !.pc = "done", !.pos = Len(KeplerData),
                                                              !.habitablePlanets = HabitablePlanets]
                                     ELSE NotStarted]
    /\ dataset = KeplerData
    /\ starts = 1
    /\ loaded = HabitablePlanets
    /\ loadOverlap = FALSE

Init == Listening /\ NoPage

\* ------------------------------------------------------------------------
\* Process lifecycle (server.js)
\* ------------------------------------------------------------------------
Running == exitCode = -1

\* The store operations of this process settle with a result: MongoDB
\* answers, and mongoose.connection.close() has not been called.
StoreAnswers == storeUp /\ mongo = "open"

\* The http server hands new requests to the app only while it listens.
Accepting == Running /\ server = "listening"

\* Variant of gracefulShutdown without the isShuttingDown guard.
gracefulShutdown_NoGuard(signal) ==
    /\ isShuttingDown' = TRUE
    /\ shutdownSignal' = signal
    /\ IF server = "listening"
       THEN server' = "closing" /\ UNCHANGED mongo
       ELSE mongo' = "closing" /\ UNCHANGED server

\* gracefulShutdown(signal): the first call sets the flag and calls
\* server.close(); later calls return at once.
gracefulShutdown(signal) ==
    IF isShuttingDown
    THEN UNCHANGED <<isShuttingDown, shutdownSignal, server, mongo>>
    ELSE /\ isShuttingDown' = TRUE
         /\ shutdownSignal' = signal
         /\ IF server = "listening"
            THEN server' = "closing" /\ UNCHANGED mongo
            ELSE \* server.close() on a server that does not listen calls back
                 \* with ERR_SERVER_NOT_RUNNING on the next tick; the callback
                 \* logs the error and goes on to mongoose.connection.close().
                 mongo' = "closing" /\ UNCHANGED server

\* process.exit(code): the handlers suspended in the process are gone.
ProcessExit(code) ==
    /\ exitCode' = code
    /\ pc' = [c \in Clients |-> "idle"]
    /\ request' = [c \in Clients |-> NoRequest]
    /\ launch' = [c \in Clients |-> NoLaunch]
    /\ response' = [c \in Clients |-> NoResponse]

\* process.on('SIGTERM' | 'SIGINT')
Signal(sig) ==
    /\ Running
    /\ gracefulShutdown(sig)
    /\ UNCHANGED <<launches, planets, storeUp, pc, request, launch, response,
                   exitCode, createOverlap>>
    /\ UNCHANGED <<startupVars, clientVars>>

\* The callback of server.close(): every connection has ended; it calls
\* mongoose.connection.close().
ServerClosed ==
    /\ Running
    /\ server = "closing"
    /\ \A c \in Clients : pc[c] = "idle"
    /\ server' = "closed"
    /\ UNCHANGED <<launches, planets, storeUp, pc, request, launch, response,
                   isShuttingDown, shutdownSignal, exitCode, createOverlap>>
    /\ mongo' = "closing"
    /\ UNCHANGED <<startupVars, clientVars>>

\* The callback of mongoose.connection.close(): exit 1 on an error, else 0.
MongoClosed(err) ==
    /\ Running
    /\ mongo = "closing"
    /\ ProcessExit(IF err THEN 1 ELSE 0)
    /\ UNCHANGED <<launches, planets, storeUp, isShuttingDown, shutdownSignal,
                   server, createOverlap>>
    /\ UNCHANGED <<startupVars, mongo, clientVars>>

\* The 10 second timer armed by gracefulShutdown.
ShutdownTimeout ==
    /\ Running
    /\ isShuttingDown
    /\ ProcessExit(1)
    /\ UNCHANGED <<launches, planets, storeUp, isShuttingDown, shutdownSignal,
                   server, createOverlap>>
    /\ UNCHANGED <<startupVars, mongo, clientVars>>

\* ------------------------------------------------------------------------
\* The store's availability
\* ------------------------------------------------------------------------
StoreFails ==
    /\ Running
    /\ storeUp
    /\ storeUp' = FALSE
    /\ UNCHANGED <<launches, planets, pc, request, launch, response,
                   isShuttingDown, shutdownSignal, server, exitCode, createOverlap>>
    /\ UNCHANGED <<startupVars, mongo, clientVars>>

StoreRecovers ==
    /\ Running
    /\ ~storeUp
    /\ storeUp' = TRUE
    /\ UNCHANGED <<launches, planets, pc, request, launch, response,
                   isShuttingDown, shutdownSignal, server, exitCode, createOverlap>>
    /\ UNCHANGED <<startupVars, mongo, clientVars>>

\* ------------------------------------------------------------------------
\* Responses
\* ------------------------------------------------------------------------
Json(status, body) == [status |-> status, body |-> body]
Error(status, message) == Json(status, [error |-> message])

\* res.status(..).json(..): the handler of c is finished.
Respond(c, r) ==
    /\ pc' = [pc EXCEPT ![c] = "done"]
    /\ response' = [response EXCEPT ![c] = r]

\* The promise of an async handler without try/catch rejects.
Reject(c) ==
    /\ pc' = [pc EXCEPT ![c] = "rejected"]
    /\ UNCHANGED response

\* ------------------------------------------------------------------------
\* POST /launches
\* ------------------------------------------------------------------------

\* Variant of ValidateLaunch that does not look at target.
ValidateLaunch_NoTarget(body) ==
    IF Falsy(body.mission) \/ Falsy(body.rocket) \/ Falsy(body.launchDate)
    THEN "Missing required launch property"
    ELSE IF NewDate(body.launchDate) = NaN
    THEN "Invalid launch date"
    ELSE "ok"

\* Variant of ValidateLaunch that also wants the target among the planets.
ValidateLaunch_KnownTarget(body) ==
    IF Falsy(body.mission) \/ Falsy(body.rocket)
       \/ Falsy(body.launchDate) \/ Falsy(body.target)
       \/ \A i \in DOMAIN planets : planets[i] # body.target
    THEN "Missing required launch property"
    ELSE IF NewDate(body.launchDate) = NaN
    THEN "Invalid launch date"
    ELSE "ok"

\* The validation at the head of httpAddNewLaunch: the error message, or
\* "ok" when the body passes.
ValidateLaunch(body) ==
    IF Falsy(body.mission) \/ Falsy(body.rocket)
       \/ Falsy(body.launchDate) \/ Falsy(body.target)
    THEN "Missing required launch property"
    ELSE IF NewDate(body.launchDate) = NaN
    THEN "Invalid launch date"
    ELSE "ok"

CreatesInFlight == { c \in Clients : pc[c] = "save" }

\* httpAddNewLaunch up to the end of `await getLatestFlightNumber()`.
httpAddNewLaunch(c, body) ==
    /\ Accepting
    /\ pc[c] = "idle"
    /\ request' = [request EXCEPT ![c] = [kind |-> "create", body |-> body]]
    /\ IF ValidateLaunch(body) # "ok"
       THEN /\ Respond(c, Error(400, ValidateLaunch(body)))
            /\ UNCHANGED <<launch, createOverlap>>
       ELSE /\ Len(launches) + Cardinality(CreatesInFlight) < MaxLaunches
            /\ IF storeUp
               THEN /\ launch' = [launch EXCEPT ![c] =
                          addNewLaunch([body EXCEPT !.launchDate = NewDate(body.launchDate)],
                                       getLatestFlightNumber(launches) + 1)]
                    /\ pc' = [pc EXCEPT ![c] = "save"]
                    /\ createOverlap' = (createOverlap \/ CreatesInFlight # {})
                    /\ UNCHANGED response
               ELSE /\ Respond(c, Error(500, "Failed to add launch"))
                    /\ UNCHANGED <<launch, createOverlap>>
    /\ UNCHANGED <<launches, planets, storeUp, isShuttingDown, shutdownSignal,
                   server, exitCode>>
    /\ UNCHANGED <<startupVars, mongo, clientVars>>

\* addNewLaunch from `await saveLaunch(newLaunch)` to the 201 response.
httpAddNewLaunch_save(c) ==
    /\ Running
    /\ pc[c] = "save"
    /\ IF storeUp
       THEN /\ launches' = saveLaunch(launches, launch[c])
            /\ Respond(c, Json(201, launch[c]))
       ELSE /\ Respond(c, Error(500, "Failed to add launch"))
            /\ UNCHANGED launches
    /\ UNCHANGED <<planets, storeUp, request, launch, isShuttingDown,
                   shutdownSignal, server, exitCode, createOverlap>>
    /\ UNCHANGED <<startupVars, mongo, clientVars>>

\* ------------------------------------------------------------------------
\* DELETE /launches/:id
\* ------------------------------------------------------------------------

\* httpAbortLaunch up to the end of `await existsLaunchWithId(launchId)`.
httpAbortLaunch(c, id) ==
    /\ Accepting
    /\ pc[c] = "idle"
    /\ request' = [request EXCEPT ![c] = [kind |-> "abort", id |-> id]]
    /\ launch' = [launch EXCEPT ![c] = [flightNumber |-> ToNumber(id)]]
    /\ IF ~storeUp
       THEN Reject(c)
       ELSE IF ~existsLaunchWithId(launches, ToNumber(id))
       THEN Respond(c, Error(404, "Launch not found"))
       ELSE /\ pc' = [pc EXCEPT ![c] = "abort"]
            /\ UNCHANGED response
    /\ UNCHANGED <<launches, planets, storeUp, isShuttingDown, shutdownSignal,
                   server, exitCode, createOverlap>>
    /\ UNCHANGED <<startupVars, mongo, clientVars>>

\* httpAbortLaunch from `await abortLaunchById(launchId)` to its response.
httpAbortLaunch_abort(c) ==
    /\ Running
    /\ pc[c] = "abort"
    /\ IF ~storeUp
       THEN Reject(c) /\ UNCHANGED launches
       ELSE LET aborted == abortLaunchById(launches, launch[c].flightNumber)
            IN /\ launches' = aborted.docs
               /\ IF aborted.modifiedCount = 1
                  THEN Respond(c, Json(200, [ok |-> TRUE]))
                  ELSE Respond(c, Error(400, "Launch not aborted"))
    /\ UNCHANGED <<planets, storeUp, request, launch, isShuttingDown,
                   shutdownSignal, server, exitCode, createOverlap>>
    /\ UNCHANGED <<startupVars, mongo, clientVars>>

\* ------------------------------------------------------------------------
\* GET /launches and GET /planets
\* ------------------------------------------------------------------------
httpGetAllLaunches(c) ==
    /\ Accepting
    /\ pc[c] = "idle"
    /\ request' = [request EXCEPT ![c] = [kind |-> "list"]]
    /\ IF storeUp
       THEN Respond(c, Json(200, getAllLaunches(launches)))
       ELSE Reject(c)
    /\ UNCHANGED <<launches, planets, storeUp, launch, isShuttingDown,
                   shutdownSignal, server, exitCode, createOverlap>>
    /\ UNCHANGED <<startupVars, mongo, clientVars>>

httpGetAllPlanets(c) ==
    /\ Accepting
    /\ pc[c] = "idle"
    /\ request' = [request EXCEPT ![c] = [kind |-> "planets"]]
    /\ IF storeUp
       THEN Respond(c, Json(200, getAllPlanets(planets)))
       ELSE Respond(c, Error(500, "Failed to fetch planets"))
    /\ UNCHANGED <<launches, planets, storeUp, launch, isShuttingDown,
                   shutdownSignal, server, exitCode, createOverlap>>
    /\ UNCHANGED <<startupVars, mongo, clientVars>>

\* ------------------------------------------------------------------------
\* A rejected handler promise.  The router of Express 5 passes the rejection
\* to the error handler, which answers 500; the router of Express 4 drops the
\* promise, so the rejection reaches process.on('unhandledRejection') and the
\* request is never answered.  The Express release is not fixed by the
\* sources, so both outcomes are possible.
\* ------------------------------------------------------------------------
ExpressErrorHandler(c) ==
    /\ Running
    /\ pc[c] = "rejected"
    /\ Respond(c, Error(500, "Internal Server Error"))
    /\ UNCHANGED <<launches, planets, storeUp, request, launch, isShuttingDown,
                   shutdownSignal, server, exitCode, createOverlap>>
    /\ UNCHANGED <<startupVars, mongo, clientVars>>

UnhandledRejection(c) ==
    /\ Running
    /\ pc[c] = "rejected"
    /\ pc' = [pc EXCEPT ![c] = "unanswered"]
    /\ gracefulShutdown("unhandledRejection")
    /\ UNCHANGED <<launches, planets, storeUp, request, launch, response,
                   exitCode, createOverlap>>
    /\ UNCHANGED <<startupVars, clientVars>>

\* The connection of c ends: the client has read the response, or has given
\* up waiting for one.
ConnectionEnds(c) ==
    /\ Running
    /\ pc[c] \in {"done", "unanswered"}
    /\ pc' = [pc EXCEPT ![c] = "idle"]
    /\ request' = [request EXCEPT ![c] = NoRequest]
    /\ launch' = [launch EXCEPT ![c] = NoLaunch]
    /\ response' = [response EXCEPT ![c] = NoResponse]
    /\ UNCHANGED <<launches, planets, storeUp, isShuttingDown, shutdownSignal,
                   server, exitCode, createOverlap>>
    /\ UNCHANGED <<startupVars, mongo, clientVars>>

\* ------------------------------------------------------------------------
\* Startup: startServer() and the loadPlanetsData() it awaits
\* ------------------------------------------------------------------------

\* The runs as a process start leaves them: the first n are called.
StartRuns(n) ==
    [r \in Runs |-> IF r <= n THEN [NotStarted EXCEPT !.pc = "connect"] ELSE NotStarted]

\* loadPlanetsData() of run r is between its start and its resolve.
Ingesting(r) == run[r].pc \in {"read", "delete", "insert", "count"}

\* The catch of startServer: process.exit(1).  The run is left at "noconnect"
\* (mongoose.connect rejected), "rejected" (loadPlanetsData rejected) or
\* "nolisten" (server.listen threw).
StartupFails(r, at) ==
    /\ run' = [run EXCEPT ![r].pc = at]
    /\ ProcessExit(1)

\* `await mongoose.connect(MONGO_URL)` settles; loadPlanetsData() is called
\* and opens the file.
Connect(r) ==
    /\ Running
    /\ run[r].pc = "connect"
    /\ IF StoreAnswers
       THEN /\ run' = [run EXCEPT ![r] = [pc |-> "read", pos |-> 0,
                                          habitablePlanets |-> <<>>, before |-> planets]]
            /\ loadOverlap' = (loadOverlap \/ \E q \in Runs \ {r} : Ingesting(q))
            /\ UNCHANGED <<exitCode, pc, request, launch, response>>
       ELSE /\ StartupFails(r, "noconnect")
            /\ UNCHANGED loadOverlap
    /\ UNCHANGED <<launches, planets, storeUp, isShuttingDown, shutdownSignal, server,
                   createOverlap, mongo, startCalls, dataset, starts, loaded>>
    /\ UNCHANGED clientVars

\* The parser emits 'data' for the next row.
ReadRow(r) ==
    /\ Running
    /\ run[r].pc = "read"
    /\ run[r].pos < Len(dataset)
    /\ run' = [run EXCEPT ![r].pos = @ + 1,
                          ![r].habitablePlanets = OnData(@, dataset[run[r].pos + 1])]
    /\ UNCHANGED <<launches, planets, storeUp, pc, request, launch, response,
                   isShuttingDown, shutdownSignal, server, exitCode, createOverlap,
                   mongo, startCalls, dataset, starts, loaded, loadOverlap>>
    /\ UNCHANGED clientVars

\* The parser emits 'error' (a malformed record): the handler rejects the
\* promise, and the catch of startServer exits.
ParseError(r) ==
    /\ Running
    /\ run[r].pc = "read"
    /\ StartupFails(r, "rejected")
    /\ UNCHANGED <<launches, planets, storeUp, isShuttingDown, shutdownSignal, server,
                   createOverlap, mongo, startCalls, dataset, starts, loaded, loadOverlap>>
    /\ UNCHANGED clientVars

\* The file stream emits 'error' (the file cannot be read).  pipe() does not
\* forward it to the parser, and the stream of fs.createReadStream has no
\* 'error' listener: the error is thrown as an uncaught exception and
\* process.on('uncaughtException') starts the shutdown.  The parser emits
\* neither 'error' nor 'end', so the promise stays pending.
ReadError(r) ==
    /\ Running
    /\ run[r].pc = "read"
    /\ run' = [run EXCEPT ![r].pc = "pending"]
    /\ gracefulShutdown("uncaughtException")
    /\ UNCHANGED <<launches, planets, storeUp, pc, request, launch, response, exitCode,
                   createOverlap, startCalls, dataset, starts, loaded, loadOverlap>>
    /\ UNCHANGED clientVars

\* The parser emits 'end': the handler calls Planet.deleteMany({}).
End(r) ==
    /\ Running
    /\ run[r].pc = "read"
    /\ run[r].pos = Len(dataset)
    /\ run' = [run EXCEPT ![r].pc = "delete"]
    /\ UNCHANGED <<launches, planets, storeUp, pc, request, launch, response,
                   isShuttingDown, shutdownSignal, server, exitCode, createOverlap,
                   mongo, startCalls, dataset, starts, loaded, loadOverlap>>
    /\ UNCHANGED clientVars

\* Variant of DeleteMany that deletes nothing, so that the insert appends to
\* what the collection holds.
DeleteMany_Keep(r) ==
    /\ Running
    /\ run[r].pc = "delete"
    /\ IF StoreAnswers
       THEN /\ run' = [run EXCEPT ![r].pc =
                          IF Len(run[r].habitablePlanets) > 0 THEN "insert" ELSE "count"]
            /\ UNCHANGED <<exitCode, pc, request, launch, response>>
       ELSE StartupFails(r, "rejected")
    /\ UNCHANGED <<launches, planets, storeUp, isShuttingDown, shutdownSignal, server,
                   createOverlap, mongo, startCalls, dataset, starts, loaded, loadOverlap>>
    /\ UNCHANGED clientVars

\* `await Planet.deleteMany({})` settles; insertMany is called when there
\* are names to save, else Planet.find({}).
DeleteMany(r) ==
    /\ Running
    /\ run[r].pc = "delete"
    /\ IF StoreAnswers
       THEN /\ planets' = <<>>
            /\ run' = [run EXCEPT ![r].pc =
                          IF Len(run[r].habitablePlanets) > 0 THEN "insert" ELSE "count"]
            /\ UNCHANGED <<exitCode, pc, request, launch, response>>
       ELSE /\ StartupFails(r, "rejected")
            /\ UNCHANGED planets
    /\ UNCHANGED <<launches, storeUp, isShuttingDown, shutdownSignal, server,
                   createOverlap, mongo, startCalls, dataset, starts, loaded, loadOverlap>>
    /\ UNCHANGED clientVars

\* `await Planet.insertMany(planetsToSave)` settles.
InsertMany(r) ==
    /\ Running
    /\ run[r].pc = "insert"
    /\ IF StoreAnswers
       THEN /\ planets' = planets \o run[r].habitablePlanets
            /\ run' = [run EXCEPT ![r].pc = "count"]
            /\ UNCHANGED <<exitCode, pc, request, launch, response>>
       ELSE /\ StartupFails(r, "rejected")
            /\ UNCHANGED planets
    /\ UNCHANGED <<launches, storeUp, isShuttingDown, shutdownSignal, server,
                   createOverlap, mongo, startCalls, dataset, starts, loaded, loadOverlap>>
    /\ UNCHANGED clientVars

\* `await Planet.find({})` settles and the promise resolves; startServer
\* calls server.listen(PORT), which throws ERR_SERVER_ALREADY_LISTEN when the
\* server listens already.
Listen(r) ==
    /\ Running
    /\ run[r].pc = "count"
    /\ IF StoreAnswers /\ server # "listening"
       THEN /\ server' = "listening"
            /\ run' = [run EXCEPT ![r].pc = "done"]
            /\ UNCHANGED <<exitCode, pc, request, launch, response>>
       ELSE /\ StartupFails(r, IF StoreAnswers THEN "nolisten" ELSE "rejected")
            /\ UNCHANGED server
    /\ loaded' = IF StoreAnswers /\ loaded = NotLoaded /\ ~loadOverlap THEN planets ELSE loaded
    /\ UNCHANGED <<launches, planets, storeUp, isShuttingDown, shutdownSignal,
                   createOverlap, mongo, startCalls, dataset, starts, loadOverlap>>
    /\ UNCHANGED clientVars

\* The process is started again over the same database and the same file.
Restart ==
    /\ ~Running
    /\ starts < MaxStarts
    /\ starts' = starts + 1
    /\ exitCode' = -1
    /\ isShuttingDown' = FALSE
    /\ shutdownSignal' = "none"
    /\ server' = "created"
    /\ mongo' = "open"
    /\ run' = StartRuns(startCalls)
    /\ UNCHANGED <<launches, planets, storeUp, pc, request, launch, response,
                   createOverlap, startCalls, dataset, loaded, loadOverlap>>
    /\ UNCHANGED clientVars

Next ==
    \/ \E c \in Clients, body \in Bodies : httpAddNewLaunch(c, body)
    \/ \E c \in Clients : httpAddNewLaunch_save(c)
    \/ \E c \in Clients, id \in LaunchIds : httpAbortLaunch(c, id)
    \/ \E c \in Clients : httpAbortLaunch_abort(c)
    \/ \E c \in Clients : httpGetAllLaunches(c)
    \/ \E c \in Clients : httpGetAllPlanets(c)
    \/ \E c \in Clients : ExpressErrorHandler(c)
    \/ \E c \in Clients : UnhandledRejection(c)
    \/ \E c \in Clients : ConnectionEnds(c)
    \/ StoreFails
    \/ StoreRecovers
    \/ \E sig \in {"SIGTERM", "SIGINT"} : Signal(sig)
    \/ ServerClosed
    \/ \E err \in BOOLEAN : MongoClosed(err)
    \/ ShutdownTimeout

Spec == Init /\ [][Next]_vars

\* ------------------------------------------------------------------------
\* The process from its start: the database holds what an earlier deployment
\* left, server.js calls startServer() once or twice, and one client asks
\* for the planets.
\* ------------------------------------------------------------------------
StartupInit ==
    /\ launches = <<>>
    /\ planets \in PriorPlanets
    /\ storeUp = TRUE
    /\ pc = [c \in Clients |-> "idle"]
    /\ request = [c \in Clients |-> NoRequest]
    /\ launch = [c \in Clients |-> NoLaunch]
    /\ response = [c \in Clients |-> NoResponse]
    /\ isShuttingDown = FALSE
    /\ shutdownSignal = "none"
    /\ server = "created"
    /\ exitCode = -1
    /\ createOverlap = FALSE
    /\ mongo = "open"
    /\ startCalls \in Runs
    /\ run = StartRuns(startCalls)
    /\ dataset \in Datasets
    /\ starts = 1
    /\ loaded = NotLoaded
    /\ loadOverlap = FALSE
    /\ NoPage

StartupNext ==
    \/ \E r \in Runs : Connect(r)
    \/ \E r \in Runs : ReadRow(r)
    \/ \E r \in Runs : ParseError(r)
    \/ \E r \in Runs : ReadError(r)
    \/ \E r \in Runs : End(r)
    \/ \E r \in Runs : DeleteMany(r)
    \/ \E r \in Runs : InsertMany(r)
    \/ \E r \in Runs : Listen(r)
    \/ Restart
    \/ httpGetAllPlanets("c1")
    \/ ConnectionEnds("c1")
    \/ StoreFails
    \/ StoreRecovers
    \/ Signal("SIGTERM")
    \/ ServerClosed
    \/ \E err \in BOOLEAN : MongoClosed(err)
    \/ ShutdownTimeout

StartupSpec == StartupInit /\ [][StartupNext]_vars

\* ------------------------------------------------------------------------
\* The registry and the ingestion over the same database: the process is
\* started, serves the launch requests of one client, is shut down, and is
\* started again.
\* ------------------------------------------------------------------------
RegistryInit ==
    /\ StartupInit
    /\ Len(dataset) <= 1

RegistryNext ==
    \/ \E r \in Runs : Connect(r)
    \/ \E r \in Runs : ReadRow(r)
    \/ \E r \in Runs : End(r)
    \/ \E r \in Runs : DeleteMany(r)
    \/ \E r \in Runs : InsertMany(r)
    \/ \E r \in Runs : Listen(r)
    \/ Restart
    \/ \E body \in ValidBodies : httpAddNewLaunch("c1", body)
    \/ httpAddNewLaunch_save("c1")
    \/ \E id \in LaunchIds : httpAbortLaunch("c1", id)
    \/ httpAbortLaunch_abort("c1")
    \/ httpGetAllLaunches("c1")
    \/ ConnectionEnds("c1")
    \/ Signal("SIGTERM")
    \/ ServerClosed
    \/ MongoClosed(FALSE)

RegistrySpec == RegistryInit /\ [][RegistryNext]_vars

\* Type invariant of the model.
\* ------------------------------------------------------------------------
\* The page of the client: the useLaunches hook over requests.js, against
\* the listening server.  The page keeps up to one fetch() per connection;
\* another user of the API posts launches over the connection "c2" when the
\* page does not use it.
\* ------------------------------------------------------------------------
serverVars == <<launches, planets, storeUp, pc, request, launch, response,
                isShuttingDown, shutdownSignal, server, exitCode, createOverlap,
                mongo, startupVars>>

\* What the launch form can send: mission and target are required by the
\* form; a cleared date is an Invalid Date, which JSON.stringify writes as
\* null.
FormBodies ==
    { Body("Kepler Exploration X", "Explorer IS1", "2030-12-27", "Kepler-442 b"),
      Body("Mission Name", "Rocket Type", Absent, "Kepler-62 f") }

\* What the other user posts.
OtherBody == Body("Mission Name", "Rocket Type", "2024-01-01", "Kepler-62 f")

\* `${id}` in the URL of httpAbortLaunch: the text of a flight number.
TemplateId(n) == CHOOSE id \in LaunchIds : ToNumber(id) = n

\* response.ok
Ok(r) == r.status \in 200..299

\* httpGetLaunches: the list sorted by flight number, [] on any failure.
httpGetLaunches(r) == IF Ok(r) THEN SortByFlightNumber(r.body) ELSE <<>>

\* Variant of SubmitEnabled: a submit button that is never disabled.
SubmitEnabled_Always == TRUE

\* The submit button of the launch form: disabled={props.isPendingLaunch}.
SubmitEnabled == ~isPendingLaunch

\* The launches the Upcoming page lists, each with its abort link.
Upcoming == { i \in DOMAIN savedLaunches : savedLaunches[i].upcoming }

\* The connection c carries no request.
Free(c) == fetches[c].kind = "none" /\ pc[c] = "idle"

\* The valid POST /launches requests sent and not yet arrived.
PendingSubmits ==
    { c \in Clients : /\ fetches[c].kind = "submitLaunch"
                      /\ pc[c] = "idle"
                      /\ ValidateLaunch(fetches[c].body) = "ok" }

\* Room in the collection for one more launch.
Room == Len(launches) + Cardinality(CreatesInFlight) + Cardinality(PendingSubmits)
            < MaxLaunches

\* The effect mounted with the hook: getLaunches().
Mounted ==
    /\ savedLaunches = <<>>
    /\ isPendingLaunch = FALSE
    /\ fetches = [c \in Clients |-> IF c = "c1" THEN [kind |-> "getLaunches", after |-> 0]
                                                ELSE NoFetch]
    /\ timers = 0
    /\ sound = "none"

\* submitLaunch up to the fetch() of httpSubmitLaunch.
submitLaunch(c, body) ==
    /\ SubmitEnabled
    /\ Free(c)
    /\ ValidateLaunch(body) = "ok" => Room
    /\ isPendingLaunch' = TRUE
    /\ fetches' = [fetches EXCEPT ![c] = [kind |-> "submitLaunch", body |-> body]]
    /\ UNCHANGED <<savedLaunches, timers, sound>>
    /\ UNCHANGED serverVars

\* abortLaunch(id) up to the fetch() of httpAbortLaunch: the abort link of
\* an upcoming launch is clicked.
abortLaunch(c, id) ==
    /\ Free(c)
    /\ \E i \in Upcoming : savedLaunches[i].flightNumber = id
    /\ fetches' = [fetches EXCEPT ![c] = [kind |-> "abortLaunch", id |-> id]]
    /\ UNCHANGED <<savedLaunches, isPendingLaunch, timers, sound>>
    /\ UNCHANGED serverVars

\* The requests of the page arrive at the server.
GetLaunchesArrives(c) ==
    /\ fetches[c].kind = "getLaunches"
    /\ httpGetAllLaunches(c)

SubmitLaunchArrives(c) ==
    /\ fetches[c].kind = "submitLaunch"
    /\ httpAddNewLaunch(c, fetches[c].body)

AbortLaunchArrives(c) ==
    /\ fetches[c].kind = "abortLaunch"
    /\ httpAbortLaunch(c, TemplateId(fetches[c].id))

\* The continuation of the await in getLaunches, submitLaunch or abortLaunch
\* on connection c, for the response r.
Settles(c, r) ==
    LET f == fetches[c]
    IN  CASE f.kind = "getLaunches" ->
                /\ savedLaunches' = httpGetLaunches(r)
                /\ fetches' = [fetches EXCEPT ![c] = NoFetch]
                /\ UNCHANGED <<isPendingLaunch, timers, sound>>
          [] f.kind = "submitLaunch" ->
                IF Ok(r)
                THEN /\ fetches' = [fetches EXCEPT ![c] = [kind |-> "getLaunches", after |-> 0]]
                     /\ timers' = timers + 1
                     /\ UNCHANGED <<savedLaunches, isPendingLaunch, sound>>
                ELSE /\ fetches' = [fetches EXCEPT ![c] = NoFetch]
                     /\ isPendingLaunch' = FALSE
                     /\ sound' = "warning"
                     /\ UNCHANGED <<savedLaunches, timers>>
          [] f.kind = "abortLaunch" ->
                IF Ok(r)
                THEN /\ fetches' = [fetches EXCEPT ![c] = [kind |-> "getLaunches", after |-> f.id]]
                     /\ sound' = "abort"
                     /\ UNCHANGED <<savedLaunches, isPendingLaunch, timers>>
                ELSE /\ fetches' = [fetches EXCEPT ![c] = NoFetch]
                     /\ sound' = "warning"
                     /\ UNCHANGED <<savedLaunches, isPendingLaunch, timers>>

\* The connection of c is over on the side of the server.
Hangup(c) ==
    /\ pc' = [pc EXCEPT ![c] = "idle"]
    /\ request' = [request EXCEPT ![c] = NoRequest]
    /\ launch' = [launch EXCEPT ![c] = NoLaunch]
    /\ response' = [response EXCEPT ![c] = NoResponse]
    /\ UNCHANGED <<launches, planets, storeUp, isShuttingDown, shutdownSignal,
                   server, exitCode, createOverlap, mongo, startupVars>>

\* The fetch() on c resolves with the response of the server.
ClientReceives(c) ==
    /\ fetches[c].kind # "none"
    /\ pc[c] = "done"
    /\ Settles(c, response[c])
    /\ Hangup(c)

\* The fetch() on c rejects: the request is refused or lost, or the
\* connection breaks while the page waits for a response that is not sent.
\* httpSubmitLaunch and httpAbortLaunch return { ok: false }, httpGetLaunches
\* returns [].
ClientNetworkError(c) ==
    /\ fetches[c].kind # "none"
    /\ pc[c] \in {"idle", "unanswered"}
    /\ Settles(c, NoResponse)
    /\ Hangup(c)

\* Variant of PendingTimeout that plays the sound and leaves the flag set.
PendingTimeout_SoundOnly ==
    /\ timers > 0
    /\ timers' = timers - 1
    /\ sound' = "success"
    /\ UNCHANGED <<savedLaunches, isPendingLaunch, fetches>>
    /\ UNCHANGED serverVars

\* The callback of the setTimeout(.., 800) of submitLaunch.
PendingTimeout ==
    /\ timers > 0
    /\ timers' = timers - 1
    /\ isPendingLaunch' = FALSE
    /\ sound' = "success"
    /\ UNCHANGED <<savedLaunches, fetches>>
    /\ UNCHANGED serverVars

\* The other user posts a launch, and reads the response.
OtherUserPosts ==
    /\ fetches["c2"].kind = "none"
    /\ Room
    /\ httpAddNewLaunch("c2", OtherBody)

OtherUserDone ==
    /\ fetches["c2"].kind = "none"
    /\ ConnectionEnds("c2")

ClientInit == Listening /\ Mounted

ClientNext ==
    \/ \E c \in Clients, body \in FormBodies : submitLaunch(c, body)
    \/ \E c \in Clients, id \in {101, 102} : abortLaunch(c, id)
    \/ \E c \in Clients : GetLaunchesArrives(c)
    \/ \E c \in Clients : SubmitLaunchArrives(c)
    \/ \E c \in Clients : AbortLaunchArrives(c)
    \/ \E c \in Clients : httpAddNewLaunch_save(c)
    \/ \E c \in Clients : httpAbortLaunch_abort(c)
    \/ \E c \in Clients : ExpressErrorHandler(c)
    \/ \E c \in Clients : UnhandledRejection(c)
    \/ \E c \in Clients : ClientReceives(c)
    \/ \E c \in Clients : ClientNetworkError(c)
    \/ PendingTimeout
    \/ OtherUserPosts
    \/ OtherUserDone
    \/ StoreFails
    \/ StoreRecovers
    \/ Signal("SIGTERM")
    \/ ServerClosed
    \/ \E err \in BOOLEAN : MongoClosed(err)
    \/ ShutdownTimeout

ClientSpec == ClientInit /\ [][ClientNext]_vars

\* The steps that carry the POST of the page on c to its end: the server
\* takes a request it accepts and runs its handler to the response, fetch()
\* resolves with a response that was sent, and rejects when the server
\* accepts no connection.
SubmitProgress(c) ==
    \/ SubmitLaunchArrives(c)
    \/ fetches[c].kind = "submitLaunch" /\ httpAddNewLaunch_save(c)
    \/ fetches[c].kind = "submitLaunch" /\ ClientReceives(c)
    \/ fetches[c].kind = "submitLaunch" /\ ~Accepting /\ ClientNetworkError(c)

\* The event loops of the server and of the browser run what is ready: a
\* request in progress is carried on, and an expired timer is run.
ClientFairSpec ==
    /\ ClientInit /\ [][ClientNext]_vars
    /\ \A c \in Clients : WF_vars(SubmitProgress(c))
    /\ WF_vars(PendingTimeout)

TypeOK ==
    /\ storeUp \in BOOLEAN
    /\ isShuttingDown \in BOOLEAN
    /\ createOverlap \in BOOLEAN
    /\ server \in {"created", "listening", "closing", "closed"}
    /\ mongo \in {"open", "closing"}
    /\ startCalls \in Runs
    /\ starts \in 1..MaxStarts
    /\ loadOverlap \in BOOLEAN
    /\ dataset \in Datasets
    /\ \A r \in Runs :
         /\ run[r].pc \in {"off", "connect", "noconnect", "read", "delete", "insert",
                           "count", "rejected", "pending", "nolisten", "done"}
         /\ run[r].pos \in 0..Len(dataset)
    /\ exitCode \in {-1, 0, 1}
    /\ \A c \in Clients :
         pc[c] \in {"idle", "save", "abort", "rejected", "unanswered", "done"}
    /\ Len(launches) <= MaxLaunches
    /\ isPendingLaunch \in BOOLEAN
    /\ timers \in 0..MaxLaunches
    /\ sound \in {"none", "success", "abort", "warning"}
    /\ Len(savedLaunches) <= MaxLaunches
    /\ \A c \in Clients :
         fetches[c].kind \in {"none", "getLaunches", "submitLaunch", "abortLaunch"}

\* ========================================================================
\* Properties
\* ========================================================================

\* c has just been answered 201 by the save step of POST /launches.
Created(c) == pc[c] = "save" /\ pc'[c] = "done" /\ response'[c].status = 201

\* c holds the response with this status to a request of this kind.
Answered(c, kind, status) ==
    pc[c] = "done" /\ request[c].kind = kind /\ response[c].status = status

\* C1: when the POST /launches requests run one after another (aborts and
\* other requests may come in between), every allocated flightNumber is
\* larger than all numbers in the store before it, is the previous maximum
\* plus one, and is 101 when the store is empty; the store, in insertion
\* order, then holds 101, 102, ...
C1_MonotonicAllocation ==
    /\ [](~createOverlap =>
            \A i \in DOMAIN launches : launches[i].flightNumber = 100 + i)
    /\ [][\A c \in Clients :
            (Created(c) /\ ~createOverlap) =>
               LET n == response'[c].body.flightNumber
               IN /\ \A i \in DOMAIN launches : launches[i].flightNumber < n
                  /\ launches # <<>> =>
                        \E i \in DOMAIN launches : launches[i].flightNumber = n - 1
                  /\ launches = <<>> => n = 101]_vars

\* Two creations one after the other, with an abort in between.
C1_Witness ==
    /\ ~createOverlap
    /\ Len(launches) = 2
    /\ ~launches[1].upcoming
    /\ \E c \in Clients :
         Answered(c, "create", 201) /\ response[c].body.flightNumber = 102

\* C2: in every reachable state no two documents of the launches collection
\* have the same flightNumber.
C2_UniqueFlightNumber ==
    \A i, j \in DOMAIN launches :
        launches[i].flightNumber = launches[j].flightNumber => i = j

\* Two creations collided on one number, and a later one was stored next to
\* them while a list request was answered.
C2_Witness ==
    /\ createOverlap
    /\ Len(launches) = 2
    /\ \E c \in Clients : Answered(c, "list", 200) /\ Len(response[c].body) = 2

C4_AbortFrame ==
    [][\A c \in Clients :
         (pc[c] = "abort" /\ pc'[c] = "done" /\ response'[c].status = 200) =>
            /\ Len(launches') = Len(launches)
            /\ \A i \in DOMAIN launches :
                  IF launches[i].flightNumber = launch[c].flightNumber
                  THEN /\ launches'[i].upcoming = FALSE
                       /\ launches'[i].success = FALSE
                       /\ launches'[i].flightNumber = launches[i].flightNumber
                       /\ launches'[i].mission = launches[i].mission
                       /\ launches'[i].rocket = launches[i].rocket
                       /\ launches'[i].target = launches[i].target
                       /\ launches'[i].customers = launches[i].customers
                       /\ launches'[i].launchDate = launches[i].launchDate
                  ELSE launches'[i] = launches[i]]_vars

\* Launch 101 of two was aborted with success; launch 102 is still upcoming.
C4_Witness ==
    /\ Len(launches) = 2
    /\ ~launches[1].upcoming /\ ~launches[1].success
    /\ launches[2].upcoming /\ launches[2].success
    /\ \E c \in Clients : Answered(c, "abort", 200) /\ request[c].id = "101"

\* C5: a DELETE for a flightNumber without a document, received while the
\* store answers, is answered 404 'Launch not found' in that step, without
\* reaching the update, and the launches collection is unchanged.
C5_AbortUnknown ==
    [][\A c \in Clients :
         ( /\ pc[c] = "idle" /\ request'[c].kind = "abort" /\ storeUp
           /\ \A i \in DOMAIN launches :
                 launches[i].flightNumber # launch'[c].flightNumber ) =>
            /\ pc'[c] = "done"
            /\ response'[c] = [status |-> 404, body |-> [error |-> "Launch not found"]]
            /\ launches' = launches]_vars

\* abortLaunch(99999) against the empty store was answered 404.
C5_Witness ==
    /\ launches = <<>>
    /\ \E c \in Clients : Answered(c, "abort", 404) /\ request[c].id = "99999"

\* The bodies that the validation rejects, and the message for each.
C6_Missing(body) ==
    \E v \in {body.mission, body.rocket, body.launchDate, body.target} :
        v = Absent \/ v = ""
C6_BadDate(body) ==
    ~C6_Missing(body) /\ body.launchDate \notin {"2030-12-27", "2024-01-01"}

\* C6: a POST /launches with a missing or empty field is answered 400
\* 'Missing required launch property', one with all fields and an unparsable
\* date 400 'Invalid launch date'; the handler is answered in the step that
\* receives it, reads no flightNumber, and the launches collection is
\* unchanged.
C6_ValidationFailsFast ==
    /\ [](\A c \in Clients :
            request[c].kind = "create" =>
               /\ C6_Missing(request[c].body) =>
                     /\ pc[c] = "done"
                     /\ launch[c] = NoLaunch
                     /\ response[c] = [status |-> 400, body |->
                                         [error |-> "Missing required launch property"]]
               /\ C6_BadDate(request[c].body) =>
                     /\ pc[c] = "done"
                     /\ launch[c] = NoLaunch
                     /\ response[c] = [status |-> 400, body |->
                                         [error |-> "Invalid launch date"]])
    /\ [][\A c \in Clients :
            ( /\ pc[c] = "idle" /\ request'[c].kind = "create"
              /\ (C6_Missing(request'[c].body) \/ C6_BadDate(request'[c].body)) ) =>
               launches' = launches]_vars

\* A body without target and a body with an unparsable date were both
\* rejected while the store holds a launch.
C6_Witness ==
    \E c, d \in Clients :
        /\ Answered(c, "create", 400) /\ request[c].body.target = Absent
        /\ response[c].body.error = "Missing required launch property"
        /\ Answered(d, "create", 400) /\ request[d].body.launchDate = "not-a-date"
        /\ response[d].body.error = "Invalid launch date"
        /\ Len(launches) = 1

\* C7: every abort of an existing launch, aborted before or not, succeeds:
\* the step that updates the document while the store answers sends 200
\* { ok: true } and leaves the document with upcoming = false and
\* success = false.
C7_RepeatAbortSucceeds ==
    [][\A c \in Clients :
         (pc[c] = "abort" /\ pc'[c] = "done" /\ storeUp) =>
            /\ response'[c] = [status |-> 200, body |-> [ok |-> TRUE]]
            /\ \A i \in DOMAIN launches' :
                  launches'[i].flightNumber = launch[c].flightNumber =>
                     ~launches'[i].upcoming /\ ~launches'[i].success]_vars

\* C8: a 201 response carries the allocated flightNumber, the default
\* customers, upcoming = success = true and the mission, rocket, target and
\* parsed launchDate of the request; the step that sends it stores the same
\* document under that number; the first document stored is number 101.
C8_CreatedRecord ==
    /\ [](\A c \in Clients :
            Answered(c, "create", 201) =>
               /\ response[c].body.flightNumber = launch[c].flightNumber
               /\ response[c].body.customers = <<"Zero to Mastery", "NASA">>
               /\ response[c].body.upcoming = TRUE
               /\ response[c].body.success = TRUE
               /\ response[c].body.mission = request[c].body.mission
               /\ response[c].body.rocket = request[c].body.rocket
               /\ response[c].body.target = request[c].body.target
               /\ response[c].body.launchDate = NewDate(request[c].body.launchDate)
               /\ response[c].body.launchDate # NaN)
    /\ [](launches # <<>> => launches[1].flightNumber = 101)
    /\ [][\A c \in Clients :
            Created(c) =>
               /\ \E i \in DOMAIN launches' : launches'[i] = response'[c].body
               /\ launches = <<>> => response'[c].body.flightNumber = 101]_vars

\* The second launch was created from the second body and is stored as
\* returned.
C8_Witness ==
    \E c \in Clients :
        /\ Answered(c, "create", 201)
        /\ response[c].body.flightNumber = 102
        /\ response[c].body.mission = "Mission Name"
        /\ response[c].body.launchDate = 19723
        /\ Len(launches) = 2
        /\ launches[2] = response[c].body

\* C9: every request that meets a store failure is answered (with 500), and
\* the failure does not stop the server: no request is left unanswered and
\* no shutdown is started by an unhandled rejection.
C9_StoreFailureIs500 ==
    /\ \A c \in Clients : pc[c] # "unanswered"
    /\ shutdownSignal # "unhandledRejection"

\* C10: a step changes a stored document only by aborting it (upcoming and
\* success become false, the other fields stay), and never removes one.
C10_OnlyAbortMutates ==
    [][\A i \in DOMAIN launches :
         /\ i \in DOMAIN launches'
         /\ \/ launches'[i] = launches[i]
            \/ launches'[i] = [launches[i] EXCEPT !.upcoming = FALSE, !.success = FALSE]]_vars

\* The indices of the documents that a step changes.
Modified == { i \in DOMAIN launches : launches'[i] # launches[i] }

\* C11: while the store answers, a DELETE is answered 404 'Launch not found'
\* exactly when no document has the flightNumber, and otherwise goes on to
\* the update; the update step answers 200 { ok: true } exactly when it
\* modified one document and 400 'Launch not aborted' exactly when it
\* modified none.
C11_AbortStatuses ==
    [][\A c \in Clients :
         /\ (pc[c] = "idle" /\ request'[c].kind = "abort" /\ storeUp) =>
               /\ response'[c] = Error(404, "Launch not found") <=>
                     ~\E i \in DOMAIN launches :
                         launches[i].flightNumber = ToNumber(request'[c].id)
               /\ pc'[c] = "abort" <=>
                     \E i \in DOMAIN launches :
                         launches[i].flightNumber = ToNumber(request'[c].id)
               /\ pc'[c] \in {"done", "abort"}
         /\ (pc[c] = "abort" /\ pc'[c] = "done" /\ storeUp) =>
               /\ Len(launches') = Len(launches)
               /\ response'[c] = Json(200, [ok |-> TRUE]) <=> Cardinality(Modified) = 1
               /\ response'[c] = Error(400, "Launch not aborted") <=> Modified = {}
               /\ response'[c].status \in {200, 400}]_vars

\* Both outcomes of the update for launch 101: one DELETE was answered 200,
\* the next one 400.
C11_Witness ==
    \E c, d \in Clients :
        /\ Answered(c, "abort", 200) /\ request[c].id = "101"
        /\ Answered(d, "abort", 400) /\ request[d].id = "101"
        /\ response[d].body.error = "Launch not aborted"

\* C12: the step that answers GET /launches while the store answers returns
\* every document of the launches collection exactly once, aborted ones
\* included, in ascending order of flightNumber, and leaves the collection
\* as it was.
C12_ListAll ==
    [][\A c \in Clients :
         (pc[c] = "idle" /\ request'[c].kind = "list" /\ storeUp) =>
            LET body == response'[c].body
            IN /\ pc'[c] = "done"
               /\ response'[c].status = 200
               /\ Len(body) = Len(launches)
               /\ \A i \in DOMAIN launches :
                     Cardinality({ j \in DOMAIN body : body[j] = launches[i] })
                       = Cardinality({ j \in DOMAIN launches : launches[j] = launches[i] })
               /\ \A i, j \in DOMAIN body :
                     i < j => body[i].flightNumber <= body[j].flightNumber
               /\ launches' = launches]_vars

\* The list shows the aborted launch 101 before the upcoming launch 102.
C12_Witness ==
    \E c \in Clients :
        /\ Answered(c, "list", 200)
        /\ Len(response[c].body) = 2
        /\ ~response[c].body[1].upcoming
        /\ response[c].body[2].upcoming
        /\ response[c].body[1].flightNumber = 101
        /\ response[c].body[2].flightNumber = 102

\* ------------------------------------------------------------------------
\* Startup and ingestion
\* ------------------------------------------------------------------------

\* loadPlanetsData() of run r is between its start and the end of its
\* delete-then-insert replacement.
Replacing(r) == run[r].pc \in {"read", "delete", "insert"}

\* The startServer() calls of this process that have invoked loadPlanetsData().
Loads == { r \in Runs : run[r].pc \notin {"off", "connect", "noconnect"} }

\* C13: no step takes up an HTTP request while a loadPlanetsData() call is
\* between its start and the end of its replacement of the planets
\* collection.
C13_IngestionBeforeServing ==
    [][(\E r \in Runs : Replacing(r)) =>
          \A c \in Clients : pc[c] = "idle" => request'[c] = NoRequest]_vars

\* C14: in every process loadPlanetsData() is invoked at most once, and it
\* has been invoked, and has resolved, when the server has begun to listen.
C14_IngestionOnce ==
    /\ Cardinality(Loads) <= 1
    /\ server # "created" => \E r \in Runs : Loads = {r} /\ run[r].pc = "done"

\* C15: once loadPlanetsData() has failed (the stream failed, or the store
\* failed during the replacement) the server has not begun to listen, no
\* request is taken up, and the process does not exit with code 0.
C15_FailedIngestionAborts ==
    (\E r \in Runs : run[r].pc \in {"rejected", "pending"}) =>
        /\ server = "created"
        /\ exitCode # 0
        /\ \A c \in Clients : request[c] = NoRequest

\* C16: a failure of the data source while the rows are read, some of them
\* habitable, makes loadPlanetsData() reject, and the step and the whole
\* attempt leave the planets collection as it was before the attempt.
C16_NoPartialWrite ==
    [][\A r \in Runs :
         ( /\ run[r].pc = "read" /\ run'[r].pc \in {"rejected", "pending"}
           /\ run[r].pos > 0 /\ run[r].habitablePlanets # <<>> ) =>
            /\ run'[r].pc = "rejected"
            /\ planets' = planets
            /\ planets' = run[r].before]_vars

\* The names that loadPlanetsData() is to store for the first n rows of the
\* file: the resolved name of every habitable row that has one, in file
\* order.
RECURSIVE NamesOf(_)
NamesOf(n) ==
    IF n = 0 THEN <<>>
    ELSE LET row == dataset[n]
             name == IF row.kepler_name # "" THEN row.kepler_name ELSE row.kepoi_name
         IN IF isHabitablePlanet(row) /\ name # ""
            THEN Append(NamesOf(n - 1), name)
            ELSE NamesOf(n - 1)

\* loadPlanetsData() of run r resolves in this step.
Resolves(r) == run[r].pc = "count" /\ run'[r].pc \in {"done", "nolisten"}

\* C17: when loadPlanetsData() resolves, the planets collection holds
\* exactly the resolved names of the habitable rows of the file, each as
\* often as the file gives it, and nothing of what it held before; it is
\* empty when no row is habitable.
C17_ReplaceSemantics ==
    [][\A r \in Runs : Resolves(r) => planets' = NamesOf(Len(dataset))]_vars

\* C18: when an ingestion resolves after an earlier one has resolved, the
\* two not overlapping, over the same file, the planets collection is again
\* what it was when the first one resolved: the same names, each as often.
C18_Idempotent ==
    [][\A r \in Runs :
         (Resolves(r) /\ ~loadOverlap /\ loaded # NotLoaded) =>
            planets' = loaded]_vars

\* The second start of the process found the two planets of the first
\* ingestion in the collection, replaced them, and the collection holds
\* the same two planets.
C18_Witness ==
    /\ starts = 2
    /\ ~loadOverlap
    /\ run[1].pc = "done"
    /\ run[1].before = loaded
    /\ planets = loaded
    /\ Len(planets) = 2

\* The rows whose flux and radius fields hold a number.
C19_Numeric(row) == row.koi_insol # "" /\ row.koi_prad # ""

\* C19: of the rows read that give flux and radius, isHabitablePlanet
\* accepts exactly those with disposition CONFIRMED, 0.36 < flux < 1.11 and
\* radius < 1.6: it rejects flux 0.36, flux 1.11 and radius 1.6, and accepts
\* radius 1.59999 with flux 0.7.
C19_Habitability ==
    \A r \in Runs : \A i \in 1..run[r].pos :
        LET row == dataset[i]
        IN C19_Numeric(row) =>
             /\ isHabitablePlanet(row) <=>
                   /\ row.koi_disposition = "CONFIRMED"
                   /\ 36 * Scale < 100 * CsvNumber(row.koi_insol)
                   /\ 100 * CsvNumber(row.koi_insol) < 111 * Scale
                   /\ 10 * CsvNumber(row.koi_prad) < 16 * Scale
             /\ row.koi_insol \in {"0.36", "1.11"} => ~isHabitablePlanet(row)
             /\ row.koi_prad = "1.6" => ~isHabitablePlanet(row)
             /\ ( /\ row.koi_disposition = "CONFIRMED" /\ row.koi_insol = "0.7"
                  /\ row.koi_prad = "1.59999" ) => isHabitablePlanet(row)

\* A run has read a row with flux 0.36 and then a row with radius 1.59999,
\* and has collected the second only.
C19_Witness ==
    \E r \in Runs :
        /\ run[r].pos = 2
        /\ dataset[1].koi_insol = "0.36" /\ dataset[1].koi_disposition = "CONFIRMED"
        /\ dataset[2].koi_prad = "1.59999"
        /\ run[r].habitablePlanets = <<"Kepler-442 b">>

\* C20: the 'data' step collects, for a habitable row, its kepler_name when
\* that is not empty, else its kepoi_name when that is not empty, else
\* nothing, and for any other row nothing; it never fails the ingestion; the
\* insert stores the collected names as they are.
C20_NameResolution ==
    [][\A r \in Runs :
         /\ (run[r].pc = "read" /\ run'[r].pos = run[r].pos + 1) =>
               LET row == dataset[run'[r].pos]
                   names == run[r].habitablePlanets
               IN /\ run'[r].pc = "read"
                  /\ run'[r].habitablePlanets =
                        IF ~isHabitablePlanet(row) THEN names
                        ELSE IF row.kepler_name # "" THEN Append(names, row.kepler_name)
                        ELSE IF row.kepoi_name # "" THEN Append(names, row.kepoi_name)
                        ELSE names
         /\ (run[r].pc = "insert" /\ run'[r].pc = "count") =>
               planets' = planets \o run[r].habitablePlanets]_vars

\* An ingestion of a habitable row without any name and a habitable row
\* with a kepoi_name only has resolved: the collection holds the kepoi_name.
C20_Witness ==
    /\ Len(dataset) = 2
    /\ dataset[1].kepler_name = "" /\ dataset[1].kepoi_name = ""
    /\ dataset[2].kepler_name = "" /\ dataset[2].kepoi_name = "K00701.04"
    /\ isHabitablePlanet(dataset[1]) /\ isHabitablePlanet(dataset[2])
    /\ \E r \in Runs : run[r].pc = "done"
    /\ planets = <<"K00701.04">>

\* C21: when loadPlanetsData() resolves, no two documents of the planets
\* collection have the same keplerName.
C21_NoDuplicatePlanets ==
    [][\A r \in Runs :
         Resolves(r) =>
            \A i, j \in DOMAIN planets' : planets'[i] = planets'[j] => i = j]_vars

\* C22: a loadPlanetsData() call that found planets in the collection when
\* it started leaves the collection as it is.
C22_LoadOnlyIfEmpty ==
    [][\A r \in Runs :
         (run[r].before # <<>> /\ run[r].pc \in {"delete", "insert"}
          /\ run'[r].pc # run[r].pc) => planets' = planets]_vars

\* C26: in every reachable state every document of the launches collection
\* has upcoming equal to success.
C26_UpcomingIsSuccess ==
    \A i \in DOMAIN launches : launches[i].upcoming = launches[i].success

\* An aborted launch and a launch created from a body that names
\* upcoming and success are stored.
C26_Witness ==
    /\ Len(launches) = 2
    /\ ~launches[1].upcoming /\ ~launches[1].success
    /\ launches[2].mission = "Takeover"
    /\ launches[2].upcoming /\ launches[2].success

\* The body of c names this property.
Names(c, f) == request[c].kind = "create" /\ f \in DOMAIN request[c].body

\* C27: a launch created from a body that names flightNumber, customers,
\* upcoming and success gets the number after the highest stored one (101
\* on the empty collection), the default customers and upcoming = success =
\* true; the save step stores and returns that launch, and leaves every
\* document with another number, the one the body names included, as it is.
C27_BodyCannotAssign ==
    [][\A c \in Clients :
         /\ (pc[c] = "idle" /\ pc'[c] = "save") =>
               /\ \A i \in DOMAIN launches :
                     launches[i].flightNumber < launch'[c].flightNumber
               /\ \/ launches = <<>> /\ launch'[c].flightNumber = 101
                  \/ \E i \in DOMAIN launches :
                        launches[i].flightNumber + 1 = launch'[c].flightNumber
               /\ launch'[c].customers = <<"Zero to Mastery", "NASA">>
               /\ launch'[c].upcoming = TRUE
               /\ launch'[c].success = TRUE
         /\ Created(c) =>
               /\ response'[c].body = launch[c]
               /\ \E i \in DOMAIN launches' : launches'[i] = launch[c]
               /\ \A i \in DOMAIN launches :
                     launches[i].flightNumber # launch[c].flightNumber =>
                        launches'[i] = launches[i]]_vars

\* The body that names flightNumber 101 was stored as launch 102, next to
\* the launch 101 of another mission.
C27_Witness ==
    \E c \in Clients :
        /\ Answered(c, "create", 201)
        /\ Names(c, "flightNumber") /\ request[c].body.flightNumber = 101
        /\ Names(c, "customers") /\ Names(c, "upcoming") /\ Names(c, "success")
        /\ response[c].body.flightNumber = 102
        /\ Len(launches) = 2
        /\ launches[1].flightNumber = 101 /\ launches[1].mission # "Takeover"
        /\ launches[2] = response[c].body

\* C28: once the shutdown has started, no later event starts it again (the
\* flag stays set and the signal it was started with stays the same, until
\* the process is gone); mongoose.connection.close() is called only when the
\* http server no longer listens nor waits for its connections to end; and
\* the process exits with code 0 only from the shutdown, with the http
\* server closed and the MongoDB connection being closed.
C28_ShutdownOnce ==
    /\ [][(isShuttingDown /\ starts' = starts) =>
             /\ isShuttingDown'
             /\ shutdownSignal' = shutdownSignal
             /\ mongo = "closing" => mongo' = "closing"]_vars
    /\ [](mongo = "closing" => isShuttingDown /\ server \notin {"listening", "closing"})
    /\ [][(exitCode = -1 /\ exitCode' = 0) =>
             /\ isShuttingDown
             /\ mongo = "closing"
             /\ server \notin {"listening", "closing"}]_vars

\* A shutdown started by an unhandled rejection has ended with code 0, the
\* http server closed.
C28_Witness ==
    /\ exitCode = 0
    /\ shutdownSignal = "unhandledRejection"
    /\ isShuttingDown
    /\ server = "closed"
    /\ mongo = "closing"

Submitting == { c \in Clients : fetches[c].kind = "submitLaunch" }

\* C24: while isPendingLaunch is true the page issues no second
\* POST /launches: at most one connection carries a POST of the page, the
\* flag is set while one does, and no step taken with the flag set starts
\* another.
C24_NoDuplicateSubmit ==
    /\ [](Cardinality(Submitting) <= 1 /\ (Submitting # {} => isPendingLaunch))
    /\ [][isPendingLaunch => Submitting' \subseteq Submitting]_vars

\* A submission is being saved by the server while the other connection of
\* the page is free for a request.
C24_Witness ==
    \E c \in Clients :
        /\ isPendingLaunch
        /\ fetches[c].kind = "submitLaunch"
        /\ pc[c] = "save"
        /\ \E d \in Clients \ {c} : Free(d)

\* The fetch() of the page on c settles in this step.
Settled(c) == fetches[c].kind # "none" /\ fetches'[c] # fetches[c]

\* C25: a submit or abort response with response.ok starts a getLaunches();
\* any other outcome starts none and plays the warning sound; when the
\* getLaunches() started by a successful abort brings the list, the aborted
\* launch is not among the upcoming launches of the page.
C25_RefetchAfterSuccess ==
    [][\A c \in Clients :
        /\ (Settled(c) /\ fetches[c].kind \in {"submitLaunch", "abortLaunch"}) =>
              IF pc[c] = "done" /\ pc'[c] = "idle" /\ Ok(response[c])
              THEN fetches'[c].kind = "getLaunches"
              ELSE fetches'[c].kind = "none" /\ sound' = "warning"
        /\ ( /\ Settled(c) /\ fetches[c].kind = "getLaunches" /\ fetches[c].after # 0
             /\ pc[c] = "done" /\ Ok(response[c]) ) =>
              \A i \in DOMAIN savedLaunches' :
                  savedLaunches'[i].flightNumber = fetches[c].after =>
                      ~savedLaunches'[i].upcoming]_vars

\* C29: whenever isPendingLaunch is true it becomes false again.
C29_PendingEnds == isPendingLaunch ~> ~isPendingLaunch

\* The page waits for the POST it sent to a server that has exited.
C29_Witness ==
    \E c \in Clients :
        /\ isPendingLaunch
        /\ fetches[c].kind = "submitLaunch"
        /\ ~Running

\* C30: when the last list fetch in flight completes with a list, the list
\* of the page is not replaced by an older one; the collection never loses a
\* launch, so a shorter list is an older list.
C30_NoStaleList ==
    [][\A c \in Clients :
        ( /\ Settled(c) /\ fetches[c].kind = "getLaunches"
          /\ pc[c] = "done" /\ Ok(response[c])
          /\ \A d \in Clients : fetches'[d].kind # "getLaunches" ) =>
             Len(savedLaunches') >= Len(savedLaunches)]_vars

====
